---- MODULE Spec2Model ----
(***************************************************************************)
(* Model of the NotYetOS/net header views: the RFC 1071 checksum engine    *)
(* (src/src/lib.rs), the IPv4 packet view (src/src/ip/ipv4.rs, ip.rs), the *)
(* ICMPv4 packet view (src/src/protocol/icmp/icmpv4.rs) and the Ethernet   *)
(* frame view (src/src/ethernet.rs).                                       *)
(*                                                                         *)
(* A buffer is a sequence of bytes (0..255); Rust index i is TLA+ index    *)
(* i + 1.  Every view is a borrowed buffer with no other state, so the     *)
(* state of the program is the contents of the buffers.                    *)
(***************************************************************************)
EXTENDS Integers, Sequences, FiniteSets, TLC

VARIABLES
    ip_buf,     \* the buffer borrowed by the IPv4 Packet view
    icmp_buf,   \* the buffer borrowed by the ICMPv4 Packet view
    eth_buf,    \* the buffer borrowed by the Ethernet Frame view
    op,         \* the operation executed last, with its arguments
    ret,        \* what that operation returned
    shadow      \* history: the value each field is expected to read back

vars == <<ip_buf, icmp_buf, eth_buf, op, ret, shadow>>

(***************************************************************************)
(* Bounds of the model.                                                    *)
(***************************************************************************)
MaxBufLen == 31
MaxBodyLen == 5

(***************************************************************************)
(* Fixed-width integer arithmetic (u8 / u16 / u32 of the Rust source).     *)
(***************************************************************************)
RECURSIVE BitAnd(_, _)
BitAnd(a, b) ==
    IF a = 0 \/ b = 0 THEN 0
    ELSE (a % 2) * (b % 2) + 2 * BitAnd(a \div 2, b \div 2)

BitOr(a, b) == a + b - BitAnd(a, b)

Shr(a, n) == a \div (2 ^ n)

Shl8(a, n) == (a * (2 ^ n)) % 256

Shl16(a, n) == (a * (2 ^ n)) % 65536

Not8(a) == 255 - a

Not16(a) == 65535 - a

\* NetworkEndian::read_u16(&data[i..]) with i the Rust (0-based) index
read_u16(data, i) == data[i + 1] * 256 + data[i + 2]

\* NetworkEndian::write_u16(&mut data[i..i+2], value)
write_u16(data, i, value) ==
    [data EXCEPT ![i + 1] = Shr(value, 8) % 256, ![i + 2] = value % 256]

\* data[i] = value
write_u8(data, i, value) == [data EXCEPT ![i + 1] = value]

\* &data[from..to] (Rust half-open range)
slice(data, from, to) == SubSeq(data, from + 1, to)

\* data[from..from + Len(src)].copy_from_slice(src)
copy_into(data, from, src) ==
    [i \in 1..Len(data) |->
        IF i > from /\ i <= from + Len(src) THEN src[i - from] ELSE data[i]]

(***************************************************************************)
(* checksum (src/src/lib.rs)                                               *)
(***************************************************************************)
\* The accumulator is a u32: it wraps only past 65537 words of 0xFFFF, far
\* beyond the buffers modelled here (a few dozen bytes), so the
\* sums below are exact.
CHUNK_SIZE == 32

\* The final u16 addition cannot overflow: sum <= 0x1FFFE, and when its
\* bit 16 is set its low half is at most 0xFFFE.
propagate_carries(word) ==
    LET sum == Shr(word, 16) + BitAnd(word, 65535)
    IN  (Shr(sum, 16) % 65536) + (sum % 65536)

\* while d.len() >= 2 { accum += read_u16(d); d = &d[2..]; }
\* returns the accumulator and the unread rest of d
RECURSIVE sum_words(_, _)
sum_words(d, accum) ==
    IF Len(d) >= 2
    THEN sum_words(SubSeq(d, 3, Len(d)), accum + read_u16(d, 0))
    ELSE [accum |-> accum, rest |-> d]

\* while data.len() >= CHUNK_SIZE { sum the chunk; data = &data[CHUNK_SIZE..]; }
RECURSIVE sum_chunks(_, _)
sum_chunks(data, accum) ==
    IF Len(data) >= CHUNK_SIZE
    THEN sum_chunks(SubSeq(data, CHUNK_SIZE + 1, Len(data)),
                    sum_words(SubSeq(data, 1, CHUNK_SIZE), accum).accum)
    ELSE [accum |-> accum, rest |-> data]

\* the same sum without the trailing odd byte
checksum_data_even_only(data) ==
    LET chunks == sum_chunks(data, 0)
        words  == sum_words(chunks.rest, chunks.accum)
    IN  propagate_carries(words.accum)

checksum_data(data) ==
    LET chunks == sum_chunks(data, 0)
        words  == sum_words(chunks.rest, chunks.accum)
        accum  == IF Len(words.rest) > 0
                  THEN words.accum + words.rest[1] * 256
                  ELSE words.accum
    IN  propagate_carries(accum)

(***************************************************************************)
(* IPv4 packet view (src/src/ip/ipv4.rs)                                   *)
(***************************************************************************)
IPV4_VER_IHL == 0
IPV4_DSCP_ECN == 1
IPV4_LENGTH == 2
IPV4_IDENT == 4
IPV4_FLG_OFF == 6
IPV4_TTL == 8
IPV4_PROTOCOL == 9
IPV4_CHECKSUM == 10
IPV4_SRC_ADDR == 12
IPV4_DST_ADDR == 16
IPV4_DST_ADDR_END == 20

ipv4_version(data) == Shr(data[IPV4_VER_IHL + 1], 4)

ipv4_header_len(data) == Shl8(BitAnd(data[IPV4_VER_IHL + 1], 15), 2)

ipv4_dscp(data) == Shr(data[IPV4_DSCP_ECN + 1], 2)

ipv4_ecn(data) == BitAnd(data[IPV4_DSCP_ECN + 1], 3)

ipv4_total_len(data) == read_u16(data, IPV4_LENGTH)

ipv4_checksum(data) == read_u16(data, IPV4_CHECKSUM)

\* mutant: the Malformed test moved ahead of the header-length test
ipv4_check_len_malformed_first(data) ==
    LET len == Len(data)
    IN  IF len < IPV4_DST_ADDR_END THEN "Truncated"
        ELSE IF ipv4_header_len(data) > ipv4_total_len(data) THEN "Malformed"
        ELSE IF len < ipv4_header_len(data) THEN "Truncated"
        ELSE IF len < ipv4_total_len(data) THEN "Truncated"
        ELSE "Ok"

\* mutant: the total-length test against the buffer length left out
ipv4_check_len_no_total(data) ==
    LET len == Len(data)
    IN  IF len < IPV4_DST_ADDR_END THEN "Truncated"
        ELSE IF len < ipv4_header_len(data) THEN "Truncated"
        ELSE IF ipv4_header_len(data) > ipv4_total_len(data) THEN "Malformed"
        ELSE "Ok"

ipv4_check_len(data) ==
    LET len == Len(data)
    IN  IF len < IPV4_DST_ADDR_END THEN "Truncated"
        ELSE IF len < ipv4_header_len(data) THEN "Truncated"
        ELSE IF ipv4_header_len(data) > ipv4_total_len(data) THEN "Malformed"
        ELSE IF len < ipv4_total_len(data) THEN "Truncated"
        ELSE "Ok"

\* (&data[..header_len] panics when header_len exceeds the buffer: the
\* callers below guard it)
ipv4_verify_checksum(data) ==
    checksum_data(slice(data, 0, ipv4_header_len(data))) = Not16(0)

ipv4_set_checksum(data, checksum) == write_u16(data, IPV4_CHECKSUM, checksum)

ipv4_set_total_len(data, len) == write_u16(data, IPV4_LENGTH, len)

ipv4_fill_checksum(data) ==
    LET zeroed == ipv4_set_checksum(data, 0)
    IN  ipv4_set_checksum(zeroed, Not16(checksum_data(zeroed)))

ipv4_dont_frag(data) == BitAnd(read_u16(data, IPV4_FLG_OFF), 16384) # 0

ipv4_more_frags(data) == BitAnd(read_u16(data, IPV4_FLG_OFF), 8192) # 0

ipv4_frag_offset(data) == Shl16(read_u16(data, IPV4_FLG_OFF), 3)

\* mutant: the version nibble written without clearing the old one
ipv4_set_version_or(data, version) ==
    write_u8(data, IPV4_VER_IHL,
        BitOr(Shl8(BitAnd(version, 15), 4), data[IPV4_VER_IHL + 1]))

ipv4_set_version(data, version) ==
    write_u8(data, IPV4_VER_IHL,
        BitOr(Shl8(BitAnd(version, 15), 4), BitAnd(15, data[IPV4_VER_IHL + 1])))

ipv4_set_header_len(data, len) ==
    write_u8(data, IPV4_VER_IHL,
        BitOr(BitAnd(data[IPV4_VER_IHL + 1], 240), BitAnd(Shr(len, 2), 15)))

ipv4_set_dscp(data, value) ==
    write_u8(data, IPV4_DSCP_ECN,
        BitOr(BitAnd(data[IPV4_DSCP_ECN + 1], Not8(252)), Shl8(value, 2)))

ipv4_set_ecn(data, value) ==
    write_u8(data, IPV4_DSCP_ECN,
        BitOr(BitAnd(data[IPV4_DSCP_ECN + 1], Not8(3)), BitAnd(value, 3)))

ipv4_clear_flags(data) ==
    write_u16(data, IPV4_FLG_OFF,
        BitAnd(read_u16(data, IPV4_FLG_OFF), Not16(57344)))

ipv4_set_dont_frag(data, value) ==
    LET raw == read_u16(data, IPV4_FLG_OFF)
    IN  write_u16(data, IPV4_FLG_OFF,
            IF value THEN BitOr(raw, 16384) ELSE BitAnd(raw, Not16(16384)))

ipv4_set_more_frags(data, value) ==
    LET raw == read_u16(data, IPV4_FLG_OFF)
    IN  write_u16(data, IPV4_FLG_OFF,
            IF value THEN BitOr(raw, 8192) ELSE BitAnd(raw, Not16(8192)))

\* mutant: the byte offset stored unscaled
ipv4_set_frag_offset_unscaled(data, value) ==
    LET raw == read_u16(data, IPV4_FLG_OFF)
    IN  write_u16(data, IPV4_FLG_OFF, BitOr(BitAnd(raw, 57344), value))

ipv4_set_frag_offset(data, value) ==
    LET raw == read_u16(data, IPV4_FLG_OFF)
    IN  write_u16(data, IPV4_FLG_OFF, BitOr(BitAnd(raw, 57344), Shr(value, 3)))

(***************************************************************************)
(* Protocol (src/src/ip.rs)                                                *)
(***************************************************************************)
Protocols ==
    {"HopByHop", "ICMP", "IGMP", "TCP", "UDP", "IPv6Route", "IPv6Frag",
     "ICMPv6", "IPv6NoNxt", "IPv6Opts", "Test", "Unsupported"}

\* the discriminants of #[repr(u8)] enum Protocol
protocol_discriminant(p) ==
    CASE p = "HopByHop"    -> 0
      [] p = "ICMP"        -> 1
      [] p = "IGMP"        -> 2
      [] p = "TCP"         -> 6
      [] p = "UDP"         -> 17
      [] p = "IPv6Route"   -> 43
      [] p = "IPv6Frag"    -> 44
      [] p = "ICMPv6"      -> 58
      [] p = "IPv6NoNxt"   -> 59
      [] p = "IPv6Opts"    -> 60
      [] p = "Test"        -> 253
      [] p = "Unsupported" -> 255

\* impl From<u8> for Protocol
protocol_from_u8(val) ==
    CASE val = 0  -> "HopByHop"
      [] val = 1  -> "ICMP"
      [] val = 2  -> "IGMP"
      [] val = 6  -> "TCP"
      [] val = 17 -> "UDP"
      [] val = 43 -> "IPv6Route"
      [] val = 44 -> "IPv6Frag"
      [] val = 58 -> "ICMPv6"
      [] val = 59 -> "IPv6NoNxt"
      [] val = 60 -> "IPv6Opts"
      [] OTHER    -> "Unsupported"

\* impl From<Protocol> for u8
protocol_into_u8(p) ==
    CASE p = "HopByHop"    -> 0
      [] p = "ICMP"        -> 1
      [] p = "IGMP"        -> 2
      [] p = "TCP"         -> 6
      [] p = "UDP"         -> 17
      [] p = "IPv6Route"   -> 17
      [] p = "IPv6Frag"    -> 43
      [] p = "ICMPv6"      -> 44
      [] p = "IPv6NoNxt"   -> 58
      [] p = "IPv6Opts"    -> 60
      [] p = "Test"        -> 253
      [] p = "Unsupported" -> 255

ipv4_protocol(data) == protocol_from_u8(data[IPV4_PROTOCOL + 1])

ipv4_set_protocol(data, p) == write_u8(data, IPV4_PROTOCOL, protocol_into_u8(p))

\* payload_mut(): &mut data[header_len..total_len]; the range a slice
\* expression accepts, otherwise the index panics
ipv4_payload_range_ok(data) ==
    /\ ipv4_header_len(data) <= ipv4_total_len(data)
    /\ ipv4_total_len(data) <= Len(data)

ipv4_payload_range_to_end(data) ==
    [start |-> ipv4_header_len(data), end |-> Len(data)]

\* let range = self.header_len() as usize..self.total_len() as usize
ipv4_payload_range(data) ==
    [start |-> ipv4_header_len(data), end |-> ipv4_total_len(data)]

(***************************************************************************)
(* ICMPv4 packet view (src/src/protocol/icmp/icmpv4.rs)                    *)
(***************************************************************************)
ICMP_TYPE == 0
ICMP_CODE == 1
ICMP_CHECKSUM == 2
ICMP_ECHO_IDENT == 4
ICMP_ECHO_SEQNO == 6
ICMP_HEADER_END == 8

Messages == {"EchoReply", "EchoRequest", "Unsupported"}

\* mutant: every non-zero type taken for an Echo Request
message_from_u8_nonzero(val) ==
    IF val = 0 THEN "EchoReply" ELSE "EchoRequest"

\* impl From<u8> for Message
message_from_u8(val) ==
    CASE val = 0 -> "EchoReply"
      [] val = 8 -> "EchoRequest"
      [] OTHER   -> "Unsupported"

\* impl From<Message> for u8
message_into_u8(msg) ==
    CASE msg = "EchoReply"   -> 0
      [] msg = "EchoRequest" -> 8
      [] msg = "Unsupported" -> 255

icmp_check_len(data) ==
    IF Len(data) < ICMP_HEADER_END THEN "Truncated" ELSE "Ok"

icmp_msg_type(data) == message_from_u8(data[ICMP_TYPE + 1])

icmp_msg_code(data) == data[ICMP_CODE + 1]

icmp_checksum(data) == read_u16(data, ICMP_CHECKSUM)

icmp_echo_ident(data) == read_u16(data, ICMP_ECHO_IDENT)

icmp_echo_seq_no(data) == read_u16(data, ICMP_ECHO_SEQNO)

icmp_verify_checksum_low_byte(data) == checksum_data(data) % 256 = 255

icmp_verify_checksum(data) == checksum_data(data) = Not16(0)

icmp_set_msg_type(data, msg_type) ==
    write_u8(data, ICMP_TYPE, message_into_u8(msg_type))

\* the body is the comparison `data[field::CODE] == code;`: its value is
\* dropped and nothing is stored
icmp_set_msg_code(data, code) == data

icmp_set_checksum(data, checksum) == write_u16(data, ICMP_CHECKSUM, checksum)

icmp_set_echo_ident(data, ident) == write_u16(data, ICMP_ECHO_IDENT, ident)

icmp_set_echo_seq_no(data, number) == write_u16(data, ICMP_ECHO_SEQNO, number)

\* mutant: the old checksum field left in the sum
icmp_fill_checksum_no_zero(data) ==
    icmp_set_checksum(data, Not16(checksum_data(data)))

icmp_fill_checksum(data) ==
    LET zeroed == icmp_set_checksum(data, 0)
    IN  icmp_set_checksum(zeroed, Not16(checksum_data(zeroed)))

(***************************************************************************)
(* Ethernet frame view (src/src/ethernet.rs)                               *)
(***************************************************************************)
ETH_DESTINATION == 0
ETH_SOURCE == 6
ETH_ETHERTYPE == 12
ETH_HEADER_LEN == 14

EtherTypes == {"IPv4", "ARP", "IPv6", "ECTP", "Unsupported"}

\* impl From<u16> for EtherType
ether_type_from_u16(val) ==
    CASE val = 2048  -> "IPv4"
      [] val = 2054  -> "ARP"
      [] val = 34525 -> "IPv6"
      [] val = 36864 -> "ECTP"
      [] OTHER       -> "Unsupported"

\* impl From<EtherType> for u16
ether_type_into_u16(ether_type) ==
    CASE ether_type = "IPv4" -> 2048
      [] ether_type = "ARP"  -> 2054
      [] ether_type = "IPv6" -> 34525
      [] ether_type = "ECTP" -> 36864
      [] OTHER               -> 65535

eth_check_len_inclusive(data) ==
    IF Len(data) <= ETH_HEADER_LEN THEN "Truncated" ELSE "Ok"

eth_check_len(data) ==
    IF Len(data) < ETH_HEADER_LEN THEN "Truncated" ELSE "Ok"

eth_ether_type(data) == ether_type_from_u16(read_u16(data, ETH_ETHERTYPE))

eth_set_ether_type(data, ether_type) ==
    write_u16(data, ETH_ETHERTYPE, ether_type_into_u16(ether_type))

(***************************************************************************)
(* The IPv4 view over received buffers: length validation, checksum and    *)
(* payload.  The buffers a caller can hand to new_unchecked are drawn from *)
(* a family varying the version/IHL byte, the total-length field, the      *)
(* buffer length and the contents of every other byte.                     *)
(***************************************************************************)
VerIhlSamples == {0, 69, 70, 72, 79, 255}

TotalLenSamples == {0, 20, 24, 28, 30, 65535}

FillSamples == {0, 165, 255}

BufLens == (IPV4_DST_ADDR_END - 2)..MaxBufLen

MkIpv4Buf(len, ver_ihl, total_len, fill) ==
    [i \in 1..len |->
        IF i = IPV4_VER_IHL + 1 THEN ver_ihl
        ELSE IF i = IPV4_LENGTH + 1 THEN Shr(total_len, 8)
        ELSE IF i = IPV4_LENGTH + 2 THEN total_len % 256
        ELSE fill]

Ipv4Buffers ==
    { MkIpv4Buf(len, b0, tl, fill) :
        len \in BufLens, b0 \in VerIhlSamples,
        tl \in TotalLenSamples, fill \in FillSamples }

NoShadow == [none |-> 0]

InitIpv4 ==
    /\ ip_buf \in Ipv4Buffers
    /\ icmp_buf = <<>>
    /\ eth_buf = <<>>
    /\ op = [name |-> "ipv4.new_unchecked", arg |-> 0]
    /\ ret = "none"
    /\ shadow = NoShadow

BoolStr(b) == IF b THEN "true" ELSE "false"

Ipv4CheckLen ==
    /\ op' = [name |-> "ipv4.check_len", arg |-> 0]
    /\ ret' = ipv4_check_len(ip_buf)
    /\ UNCHANGED <<ip_buf, icmp_buf, eth_buf, shadow>>

Ipv4VerifyChecksum ==
    /\ op' = [name |-> "ipv4.verify_checksum", arg |-> 0]
    /\ ret' = IF ipv4_header_len(ip_buf) > Len(ip_buf) THEN "panic"
              ELSE BoolStr(ipv4_verify_checksum(ip_buf))
    /\ UNCHANGED <<ip_buf, icmp_buf, eth_buf, shadow>>

Ipv4FillChecksum ==
    /\ op' = [name |-> "ipv4.fill_checksum", arg |-> 0]
    /\ IF Len(ip_buf) < IPV4_CHECKSUM + 2
       THEN ret' = "panic" /\ ip_buf' = ip_buf
       ELSE ret' = "unit" /\ ip_buf' = ipv4_fill_checksum(ip_buf)
    /\ UNCHANGED <<icmp_buf, eth_buf, shadow>>

\* packet.payload_mut().copy_from_slice(src), src of the payload's length
Ipv4WritePayload ==
    \E fill \in FillSamples :
        /\ op' = [name |-> "ipv4.payload_mut", arg |-> fill]
        /\ IF ipv4_payload_range_ok(ip_buf)
           THEN /\ ret' = "unit"
                /\ LET range == ipv4_payload_range(ip_buf) IN
                       ip_buf' = copy_into(ip_buf, range.start,
                                     [i \in 1..(range.end - range.start) |-> fill])
           ELSE ret' = "panic" /\ ip_buf' = ip_buf
        /\ UNCHANGED <<icmp_buf, eth_buf, shadow>>

NextIpv4 ==
    \/ Ipv4CheckLen
    \/ Ipv4VerifyChecksum
    \/ Ipv4FillChecksum
    \/ Ipv4WritePayload

SpecIpv4 == InitIpv4 /\ [][NextIpv4]_vars

(***************************************************************************)
(* Claims about the IPv4 view over received buffers (SpecIpv4).            *)
(***************************************************************************)
\* the fields as the wire format declares them
DeclaredHeaderLen(data) == (data[1] % 16) * 4

DeclaredTotalLen(data) == data[3] * 256 + data[4]

\* C1: on any buffer that passes check_len, whatever the header bytes and
\* the bytes after the header, verify_checksum right after fill_checksum
\* returns true.
C1_FillThenVerify ==
    (op.name = "ipv4.fill_checksum" /\ ret = "unit"
        /\ ipv4_check_len(ip_buf) = "Ok")
    => ipv4_verify_checksum(ip_buf)

\* C3: fill_checksum stores in bytes [10..12) the complement of the
\* ones'-complement sum of the header bytes [0..header_len) alone, taken
\* with the checksum field zeroed: no byte at index >= header_len has a say.
C3_ChecksumOverHeaderOnly ==
    (op.name = "ipv4.fill_checksum" /\ ret = "unit"
        /\ ipv4_check_len(ip_buf) = "Ok"
        /\ DeclaredHeaderLen(ip_buf) >= IPV4_DST_ADDR_END)
    => ipv4_checksum(ip_buf) =
         Not16(checksum_data(
             slice(ipv4_set_checksum(ip_buf, 0), 0, DeclaredHeaderLen(ip_buf))))

\* C4: check_len returns the outcome of the first failing test, in the
\* order: buffer < 20 -> Truncated; buffer < header length -> Truncated;
\* header length > total length -> Malformed; buffer < total length ->
\* Truncated; and Ok exactly when none of the four fails.
C4_CheckLenOrder ==
    op.name = "ipv4.check_len" =>
        LET len == Len(ip_buf)
            hl  == DeclaredHeaderLen(ip_buf)
            tl  == DeclaredTotalLen(ip_buf)
            t1  == len < 20
            t2  == len < hl
            t3  == hl > tl
            t4  == len < tl
        IN  /\ t1 => ret = "Truncated"
            /\ (~t1 /\ t2) => ret = "Truncated"
            /\ (~t1 /\ ~t2 /\ t3) => ret = "Malformed"
            /\ (~t1 /\ ~t2 /\ ~t3 /\ t4) => ret = "Truncated"
            /\ (ret = "Ok") <=> (~t1 /\ ~t2 /\ ~t3 /\ ~t4)

\* C4 witness: header length 20, total length 30, buffer length 25 was
\* checked and found Truncated.
C4_Witness ==
    /\ op.name = "ipv4.check_len"
    /\ Len(ip_buf) = 25
    /\ DeclaredHeaderLen(ip_buf) = 20
    /\ DeclaredTotalLen(ip_buf) = 30
    /\ ret = "Truncated"

\* C5 as stated: a buffer of length 20 whose IHL nibble is 6 (24 bytes)
\* fails check_len with Malformed.
C5_Ihl6Len20Malformed ==
    (op.name = "ipv4.check_len" /\ Len(ip_buf) = 20
        /\ DeclaredHeaderLen(ip_buf) = 24)
    => ret = "Malformed"

\* C5 amended: a buffer of length 20 whose IHL nibble is 6 (24 bytes)
\* fails check_len with Truncated, whatever its total-length field says.
C5_Ihl6Len20Truncated ==
    (op.name = "ipv4.check_len" /\ Len(ip_buf) = 20
        /\ DeclaredHeaderLen(ip_buf) = 24)
    => ret = "Truncated"

\* C5 witness: such a buffer, declaring a total length below 24, was checked.
C5_Witness ==
    /\ op.name = "ipv4.check_len"
    /\ Len(ip_buf) = 20
    /\ DeclaredHeaderLen(ip_buf) = 24
    /\ DeclaredTotalLen(ip_buf) < 24
    /\ ret = "Truncated"

(***************************************************************************)
(* Building an IPv4 header: the bit-packed bytes 0 and 1 and the protocol  *)
(* byte.  The view is made over a buffer of the minimum length holding     *)
(* arbitrary bytes; shadow holds, for every field, the value a read is     *)
(* expected to return: what the buffer held at first, then what the        *)
(* field's own setter was last given.                                      *)
(***************************************************************************)
HeaderFillSamples == {0, 165, 255}

VersionSamples == {0, 4, 6, 15}

HeaderLenSamples == {0, 20, 24, 60}

DscpSamples == {0, 1, 46, 63}

EcnSamples == 0..3

Ipv4HeaderBuffers ==
    { [i \in 1..IPV4_DST_ADDR_END |-> fill] : fill \in HeaderFillSamples }

InitIpv4Fields ==
    /\ ip_buf \in Ipv4HeaderBuffers
    /\ icmp_buf = <<>>
    /\ eth_buf = <<>>
    /\ op = [name |-> "ipv4.new_unchecked", arg |-> 0]
    /\ ret = "none"
    /\ shadow = [version    |-> ipv4_version(ip_buf),
                 header_len |-> ipv4_header_len(ip_buf),
                 dscp       |-> ipv4_dscp(ip_buf),
                 ecn        |-> ipv4_ecn(ip_buf),
                 protocol   |-> ipv4_protocol(ip_buf)]

Ipv4SetVersion ==
    \E v \in VersionSamples :
        /\ ip_buf' = ipv4_set_version(ip_buf, v)
        /\ op' = [name |-> "ipv4.set_version", arg |-> v]
        /\ shadow' = [shadow EXCEPT !.version = v]
        /\ ret' = "unit"
        /\ UNCHANGED <<icmp_buf, eth_buf>>

Ipv4SetHeaderLen ==
    \E h \in HeaderLenSamples :
        /\ ip_buf' = ipv4_set_header_len(ip_buf, h)
        /\ op' = [name |-> "ipv4.set_header_len", arg |-> h]
        /\ shadow' = [shadow EXCEPT !.header_len = h]
        /\ ret' = "unit"
        /\ UNCHANGED <<icmp_buf, eth_buf>>

Ipv4SetDscp ==
    \E d \in DscpSamples :
        /\ ip_buf' = ipv4_set_dscp(ip_buf, d)
        /\ op' = [name |-> "ipv4.set_dscp", arg |-> d]
        /\ shadow' = [shadow EXCEPT !.dscp = d]
        /\ ret' = "unit"
        /\ UNCHANGED <<icmp_buf, eth_buf>>

Ipv4SetEcn ==
    \E e \in EcnSamples :
        /\ ip_buf' = ipv4_set_ecn(ip_buf, e)
        /\ op' = [name |-> "ipv4.set_ecn", arg |-> e]
        /\ shadow' = [shadow EXCEPT !.ecn = e]
        /\ ret' = "unit"
        /\ UNCHANGED <<icmp_buf, eth_buf>>

Ipv4SetProtocol ==
    \E p \in Protocols :
        /\ ip_buf' = ipv4_set_protocol(ip_buf, p)
        /\ op' = [name |-> "ipv4.set_protocol", arg |-> p]
        /\ shadow' = [shadow EXCEPT !.protocol = p]
        /\ ret' = "unit"
        /\ UNCHANGED <<icmp_buf, eth_buf>>

NextIpv4Fields ==
    \/ Ipv4SetVersion
    \/ Ipv4SetHeaderLen
    \/ Ipv4SetDscp
    \/ Ipv4SetEcn
    \/ Ipv4SetProtocol

SpecIpv4Fields == InitIpv4Fields /\ [][NextIpv4Fields]_vars

\* C6: after any sequence of set_version, set_header_len, set_dscp and
\* set_ecn on any buffer, version(), header_len(), dscp() and ecn() each
\* return the value last given to their own setter (a field never set still
\* reads what the buffer held at first: no setter bleeds into another
\* field), and header_len() is the low nibble of byte 0 times 4.
C6_VerTosRoundTrip ==
    /\ ipv4_version(ip_buf) = shadow.version
    /\ ipv4_header_len(ip_buf) = shadow.header_len
    /\ ipv4_dscp(ip_buf) = shadow.dscp
    /\ ipv4_ecn(ip_buf) = shadow.ecn
    /\ ipv4_header_len(ip_buf) = (ip_buf[1] % 16) * 4
    /\ ip_buf[1] = shadow.version * 16 + shadow.header_len \div 4
    /\ ip_buf[2] = shadow.dscp * 4 + shadow.ecn

\* C6 witness: version 4 and header length 20 survive DSCP = 0x3F followed
\* by ECN = 0x3 (no initial buffer holds version 4, nor header length 20
\* together with DSCP 0x3F, so the setters have acted).
C6_Witness ==
    /\ op = [name |-> "ipv4.set_ecn", arg |-> 3]
    /\ shadow.version = 4 /\ ipv4_version(ip_buf) = 4
    /\ shadow.header_len = 20 /\ ipv4_header_len(ip_buf) = 20
    /\ shadow.dscp = 63 /\ ipv4_dscp(ip_buf) = 63
    /\ ipv4_ecn(ip_buf) = 3

\* C9: the byte written by set_protocol(p) is p's declared wire value, and
\* protocol() read back after set_protocol(p) returns p, for every variant.
C9_ProtocolCanonical ==
    op.name = "ipv4.set_protocol" =>
        /\ ip_buf[IPV4_PROTOCOL + 1] = protocol_discriminant(op.arg)
        /\ ipv4_protocol(ip_buf) = op.arg

(***************************************************************************)
(* Building an IPv4 header: the flags / fragment-offset word, bytes [6..8).*)
(* shadow.cleared records that clear_flags has been called; the other      *)
(* fields of shadow are the values the reads are expected to return.       *)
(***************************************************************************)
FragOffsetSamples == {0, 8, 1480, 32768, 65528}

InitIpv4Flags ==
    /\ ip_buf \in Ipv4HeaderBuffers
    /\ icmp_buf = <<>>
    /\ eth_buf = <<>>
    /\ op = [name |-> "ipv4.new_unchecked", arg |-> 0]
    /\ ret = "none"
    /\ shadow = [cleared     |-> FALSE,
                 dont_frag   |-> ipv4_dont_frag(ip_buf),
                 more_frags  |-> ipv4_more_frags(ip_buf),
                 frag_offset |-> ipv4_frag_offset(ip_buf)]

Ipv4ClearFlags ==
    /\ ip_buf' = ipv4_clear_flags(ip_buf)
    /\ op' = [name |-> "ipv4.clear_flags", arg |-> 0]
    /\ shadow' = [shadow EXCEPT !.cleared = TRUE, !.dont_frag = FALSE,
                                !.more_frags = FALSE]
    /\ ret' = "unit"
    /\ UNCHANGED <<icmp_buf, eth_buf>>

Ipv4SetDontFrag ==
    \E b \in BOOLEAN :
        /\ ip_buf' = ipv4_set_dont_frag(ip_buf, b)
        /\ op' = [name |-> "ipv4.set_dont_frag", arg |-> b]
        /\ shadow' = [shadow EXCEPT !.dont_frag = b]
        /\ ret' = "unit"
        /\ UNCHANGED <<icmp_buf, eth_buf>>

Ipv4SetMoreFrags ==
    \E b \in BOOLEAN :
        /\ ip_buf' = ipv4_set_more_frags(ip_buf, b)
        /\ op' = [name |-> "ipv4.set_more_frags", arg |-> b]
        /\ shadow' = [shadow EXCEPT !.more_frags = b]
        /\ ret' = "unit"
        /\ UNCHANGED <<icmp_buf, eth_buf>>

Ipv4SetFragOffset ==
    \E o \in FragOffsetSamples :
        /\ ip_buf' = ipv4_set_frag_offset(ip_buf, o)
        /\ op' = [name |-> "ipv4.set_frag_offset", arg |-> o]
        /\ shadow' = [shadow EXCEPT !.frag_offset = o]
        /\ ret' = "unit"
        /\ UNCHANGED <<icmp_buf, eth_buf>>

NextIpv4Flags ==
    \/ Ipv4ClearFlags
    \/ Ipv4SetDontFrag
    \/ Ipv4SetMoreFrags
    \/ Ipv4SetFragOffset

SpecIpv4Flags == InitIpv4Flags /\ [][NextIpv4Flags]_vars

FlagsWord(data) == data[7] * 256 + data[8]

\* C7: once clear_flags has been called, after any sequence of
\* set_dont_frag, set_more_frags and set_frag_offset (a multiple of 8),
\* dont_frag() is bit 14, more_frags() is bit 13, frag_offset() is the low
\* 13 bits times 8, each is the value last set, and bit 15 is clear.
C7_FlagsWord ==
    shadow.cleared =>
        LET w == FlagsWord(ip_buf)
        IN  /\ (w \div 32768) % 2 = 0
            /\ ipv4_dont_frag(ip_buf) = ((w \div 16384) % 2 = 1)
            /\ ipv4_more_frags(ip_buf) = ((w \div 8192) % 2 = 1)
            /\ ipv4_frag_offset(ip_buf) = (w % 8192) * 8
            /\ ipv4_dont_frag(ip_buf) = shadow.dont_frag
            /\ ipv4_more_frags(ip_buf) = shadow.more_frags
            /\ ipv4_frag_offset(ip_buf) = shadow.frag_offset

\* C7 witness: after clear_flags, don't-fragment was set, more-fragments
\* is clear and the largest offset (65528 = 0x1FFF * 8) was just stored.
C7_Witness ==
    /\ shadow.cleared
    /\ op = [name |-> "ipv4.set_frag_offset", arg |-> 65528]
    /\ shadow.dont_frag /\ ipv4_dont_frag(ip_buf)
    /\ ~shadow.more_frags /\ ~ipv4_more_frags(ip_buf)
    /\ ipv4_frag_offset(ip_buf) = 65528
    /\ FlagsWord(ip_buf) = 24575

(***************************************************************************)
(* The ICMPv4 view: header setters and the checksum over the whole         *)
(* message.  Buffers have every length from the 8-byte header up to        *)
(* MaxBodyLen bytes of body, and the lengths around the checksum's chunk   *)
(* size; they hold one repeated byte or a ramp of distinct bytes.          *)
(***************************************************************************)
IcmpLens ==
    (ICMP_HEADER_END .. (ICMP_HEADER_END + MaxBodyLen))
        \cup {CHUNK_SIZE, CHUNK_SIZE + 1}

IcmpFillSamples == {0, 165, 255}

IcmpBuffers ==
    { [i \in 1..len |-> fill] : len \in IcmpLens, fill \in IcmpFillSamples }
        \cup { [i \in 1..len |-> (i * 37) % 256] : len \in IcmpLens }

CodeSamples == {0, 5, 255}

IdentSamples == {0, 4660, 65535}

SeqNoSamples == {0, 43981, 65535}

InitIcmp ==
    /\ icmp_buf \in IcmpBuffers
    /\ ip_buf = <<>>
    /\ eth_buf = <<>>
    /\ op = [name |-> "icmp.new_unchecked", arg |-> 0]
    /\ ret = "none"
    /\ shadow = [msg_type    |-> icmp_msg_type(icmp_buf),
                 msg_code    |-> icmp_msg_code(icmp_buf),
                 echo_ident  |-> icmp_echo_ident(icmp_buf),
                 echo_seq_no |-> icmp_echo_seq_no(icmp_buf)]

IcmpSetMsgType ==
    \E t \in Messages :
        /\ icmp_buf' = icmp_set_msg_type(icmp_buf, t)
        /\ op' = [name |-> "icmp.set_msg_type", arg |-> t]
        /\ shadow' = [shadow EXCEPT !.msg_type = t]
        /\ ret' = "unit"
        /\ UNCHANGED <<ip_buf, eth_buf>>

IcmpSetMsgCode ==
    \E c \in CodeSamples :
        /\ icmp_buf' = icmp_set_msg_code(icmp_buf, c)
        /\ op' = [name |-> "icmp.set_msg_code", arg |-> c]
        /\ shadow' = [shadow EXCEPT !.msg_code = c]
        /\ ret' = "unit"
        /\ UNCHANGED <<ip_buf, eth_buf>>

IcmpSetEchoIdent ==
    \E v \in IdentSamples :
        /\ icmp_buf' = icmp_set_echo_ident(icmp_buf, v)
        /\ op' = [name |-> "icmp.set_echo_ident", arg |-> v]
        /\ shadow' = [shadow EXCEPT !.echo_ident = v]
        /\ ret' = "unit"
        /\ UNCHANGED <<ip_buf, eth_buf>>

IcmpSetEchoSeqNo ==
    \E v \in SeqNoSamples :
        /\ icmp_buf' = icmp_set_echo_seq_no(icmp_buf, v)
        /\ op' = [name |-> "icmp.set_echo_seq_no", arg |-> v]
        /\ shadow' = [shadow EXCEPT !.echo_seq_no = v]
        /\ ret' = "unit"
        /\ UNCHANGED <<ip_buf, eth_buf>>

IcmpFillChecksum ==
    /\ icmp_buf' = icmp_fill_checksum(icmp_buf)
    /\ op' = [name |-> "icmp.fill_checksum", arg |-> 0]
    /\ ret' = "unit"
    /\ UNCHANGED <<ip_buf, eth_buf, shadow>>

IcmpVerifyChecksum ==
    /\ op' = [name |-> "icmp.verify_checksum", arg |-> 0]
    /\ ret' = BoolStr(icmp_verify_checksum(icmp_buf))
    /\ UNCHANGED <<ip_buf, icmp_buf, eth_buf, shadow>>

NextIcmp ==
    \/ IcmpSetMsgType
    \/ IcmpSetMsgCode
    \/ IcmpSetEchoIdent
    \/ IcmpSetEchoSeqNo
    \/ IcmpFillChecksum
    \/ IcmpVerifyChecksum

SpecIcmp == InitIcmp /\ [][NextIcmp]_vars

\* The RFC 1071 sum, by arithmetic: the big-endian 16-bit words of the
\* buffer (an odd last byte is the high byte of a word) added up, and the
\* total reduced to 16 bits with end-around carry.
RECURSIVE WordTotal(_, _)
WordTotal(data, i) ==
    IF i > Len(data) THEN 0
    ELSE data[i] * 256 + (IF i + 1 <= Len(data) THEN data[i + 1] ELSE 0)
         + WordTotal(data, i + 2)

OnesComplementSum(data) ==
    LET total == WordTotal(data, 1)
    IN  IF total = 0 THEN 0 ELSE ((total - 1) % 65535) + 1

\* C2: on any buffer of at least 8 bytes, of even or odd length, after
\* fill_checksum the checksum field is the complement of the sum of the
\* whole buffer taken with bytes [2..4) zeroed, and verify_checksum (the sum
\* of the whole buffer as it stands is 0xFFFF) returns true.
C2_IcmpFillThenVerify ==
    op.name = "icmp.fill_checksum" =>
        /\ icmp_checksum(icmp_buf) =
             65535 - OnesComplementSum(
                 [icmp_buf EXCEPT ![ICMP_CHECKSUM + 1] = 0,
                                  ![ICMP_CHECKSUM + 2] = 0])
        /\ OnesComplementSum(icmp_buf) = 65535
        /\ icmp_verify_checksum(icmp_buf)

\* C2 witness: an all-ones buffer of odd length has had its checksum filled.
C2_Witness ==
    /\ op.name = "icmp.fill_checksum"
    /\ Len(icmp_buf) % 2 = 1
    /\ \A i \in 1..Len(icmp_buf) :
          i \notin {ICMP_CHECKSUM + 1, ICMP_CHECKSUM + 2} => icmp_buf[i] = 255
    /\ icmp_verify_checksum(icmp_buf)

\* C8: after set_msg_type(t), set_msg_code(c), set_echo_ident(i) and
\* set_echo_seq_no(s), in any order, msg_type() returns t, msg_code()
\* returns c, echo_ident() returns i and echo_seq_no() returns s.
C8_IcmpRoundTrip ==
    /\ icmp_msg_type(icmp_buf) = shadow.msg_type
    /\ icmp_msg_code(icmp_buf) = shadow.msg_code
    /\ icmp_echo_ident(icmp_buf) = shadow.echo_ident
    /\ icmp_echo_seq_no(icmp_buf) = shadow.echo_seq_no

(***************************************************************************)
(* Wire codes: the EtherType of a frame and the message type of an ICMPv4  *)
(* packet, decoded from received bytes and encoded by the setters.  The    *)
(* frame's type field holds one of the sampled 16-bit values (the four     *)
(* named codes, their neighbours, their byte swaps and the extremes), the  *)
(* packet's type byte any of the 256 values.                               *)
(***************************************************************************)
EtherTypeRawSamples ==
    {0, 8, 2047, 2048, 2049, 2053, 2054, 2055, 4660, 34524, 34525, 34526,
     36864, 36865, 56710, 65535}

InitCodes ==
    /\ \E raw \in EtherTypeRawSamples :
          eth_buf = write_u16([i \in 1..ETH_HEADER_LEN |-> 0], ETH_ETHERTYPE, raw)
    /\ \E b \in 0..255 :
          icmp_buf = write_u8([i \in 1..ICMP_HEADER_END |-> 0], ICMP_TYPE, b)
    /\ ip_buf = <<>>
    /\ op = [name |-> "new_unchecked", arg |-> 0]
    /\ ret = "none"
    /\ shadow = [msg_type    |-> icmp_msg_type(icmp_buf),
                 msg_code    |-> icmp_msg_code(icmp_buf),
                 echo_ident  |-> icmp_echo_ident(icmp_buf),
                 echo_seq_no |-> icmp_echo_seq_no(icmp_buf)]

EthSetEtherType ==
    \E t \in EtherTypes :
        /\ eth_buf' = eth_set_ether_type(eth_buf, t)
        /\ op' = [name |-> "eth.set_ether_type", arg |-> t]
        /\ ret' = "unit"
        /\ UNCHANGED <<ip_buf, icmp_buf, shadow>>

NextCodes ==
    \/ EthSetEtherType
    \/ IcmpSetMsgType

SpecCodes == InitCodes /\ [][NextCodes]_vars

\* C10: decoding never fails: ether_type() gives IPv4, ARP, IPv6, ECTP for
\* 0x0800, 0x0806, 0x86DD, 0x9000 and Unsupported for every other value;
\* msg_type() gives EchoReply for 0, EchoRequest for 8 and Unsupported for
\* every other byte; and a variant that was just encoded decodes to itself.
C10_WireCodesTotal ==
    LET raw == eth_buf[13] * 256 + eth_buf[14]
        b   == icmp_buf[1]
    IN  /\ eth_ether_type(eth_buf) \in EtherTypes
        /\ (raw = 2048)  <=> (eth_ether_type(eth_buf) = "IPv4")
        /\ (raw = 2054)  <=> (eth_ether_type(eth_buf) = "ARP")
        /\ (raw = 34525) <=> (eth_ether_type(eth_buf) = "IPv6")
        /\ (raw = 36864) <=> (eth_ether_type(eth_buf) = "ECTP")
        /\ (raw \notin {2048, 2054, 34525, 36864})
              <=> (eth_ether_type(eth_buf) = "Unsupported")
        /\ icmp_msg_type(icmp_buf) \in Messages
        /\ (b = 0) <=> (icmp_msg_type(icmp_buf) = "EchoReply")
        /\ (b = 8) <=> (icmp_msg_type(icmp_buf) = "EchoRequest")
        /\ (b \notin {0, 8}) <=> (icmp_msg_type(icmp_buf) = "Unsupported")
        /\ op.name = "eth.set_ether_type" => eth_ether_type(eth_buf) = op.arg
        /\ op.name = "icmp.set_msg_type" => icmp_msg_type(icmp_buf) = op.arg

\* C10 witness: ECTP was just encoded (0x9000) and decodes to ECTP, while
\* the packet's type byte 200 decodes to Unsupported.
C10_Witness ==
    /\ op = [name |-> "eth.set_ether_type", arg |-> "ECTP"]
    /\ read_u16(eth_buf, ETH_ETHERTYPE) = 36864
    /\ eth_ether_type(eth_buf) = "ECTP"
    /\ icmp_buf[1] = 200
    /\ icmp_msg_type(icmp_buf) = "Unsupported"

(***************************************************************************)
(* Checked construction: new_checked wraps the buffer, runs check_len and  *)
(* returns the view only when the check passes.  The view borrows the      *)
(* buffer through &self, so no byte is written.                            *)
(***************************************************************************)
eth_new_checked(data) == eth_check_len(data)

ipv4_new_checked(data) == ipv4_check_len(data)

icmp_new_checked(data) == icmp_check_len(data)

\* buffer lengths on both sides of each protocol's minimum
EthCheckedLens == 0..(ETH_HEADER_LEN + 2)

IcmpCheckedLens == 0..(ICMP_HEADER_END + 2)

CheckedBuffers(lens) ==
    { [i \in 1..n |-> f] : n \in lens, f \in FillSamples }

\* one view is constructed over one buffer; shadow keeps the bytes handed in
InitChecked ==
    /\ \/ /\ eth_buf \in CheckedBuffers(EthCheckedLens)
          /\ ip_buf = <<>> /\ icmp_buf = <<>>
       \/ /\ ip_buf \in Ipv4Buffers
          /\ eth_buf = <<>> /\ icmp_buf = <<>>
       \/ /\ icmp_buf \in CheckedBuffers(IcmpCheckedLens)
          /\ eth_buf = <<>> /\ ip_buf = <<>>
    /\ op = [name |-> "none", arg |-> 0]
    /\ ret = "none"
    /\ shadow = [eth |-> eth_buf, ip |-> ip_buf, icmp |-> icmp_buf]

EthNewChecked ==
    /\ op' = [name |-> "eth.new_checked", arg |-> 0]
    /\ ret' = eth_new_checked(eth_buf)
    /\ UNCHANGED <<ip_buf, icmp_buf, eth_buf, shadow>>

Ipv4NewChecked ==
    /\ op' = [name |-> "ipv4.new_checked", arg |-> 0]
    /\ ret' = ipv4_new_checked(ip_buf)
    /\ UNCHANGED <<ip_buf, icmp_buf, eth_buf, shadow>>

IcmpNewChecked ==
    /\ op' = [name |-> "icmp.new_checked", arg |-> 0]
    /\ ret' = icmp_new_checked(icmp_buf)
    /\ UNCHANGED <<ip_buf, icmp_buf, eth_buf, shadow>>

NextChecked ==
    \/ EthNewChecked
    \/ Ipv4NewChecked
    \/ IcmpNewChecked

SpecChecked == InitChecked /\ [][NextChecked]_vars

\* C11: new_checked never returns a view over a buffer shorter than the
\* protocol minimum (Ethernet 14, IPv4 20, ICMPv4 8); for Ethernet and
\* ICMPv4 it fails with Truncated exactly when the length is below the
\* minimum and succeeds otherwise; the buffer is unchanged in every case.
C11_CheckedConstruction ==
    /\ op.name = "eth.new_checked" =>
          /\ ret \in {"Ok", "Truncated"}
          /\ (ret = "Truncated") <=> (Len(eth_buf) < 14)
    /\ op.name = "icmp.new_checked" =>
          /\ ret \in {"Ok", "Truncated"}
          /\ (ret = "Truncated") <=> (Len(icmp_buf) < 8)
    /\ op.name = "ipv4.new_checked" =>
          /\ ret \in {"Ok", "Truncated", "Malformed"}
          /\ (ret = "Ok") => (Len(ip_buf) >= 20)
    /\ op.name # "none" =>
          /\ eth_buf = shadow.eth
          /\ ip_buf = shadow.ip
          /\ icmp_buf = shadow.icmp

\* a 14-byte frame buffer is accepted
C11_Witness ==
    /\ op.name = "eth.new_checked"
    /\ Len(eth_buf) = 14
    /\ ret = "Ok"

(***************************************************************************)
(* Ethernet frame layout: addresses, payload and their setters.  An        *)
(* Address is its six bytes.                                               *)
(***************************************************************************)
address_from_bytes(data) == [i \in 1..6 |-> data[i]]

address_as_bytes(addr) == addr

eth_dst_addr(data) ==
    address_from_bytes(slice(data, ETH_DESTINATION, ETH_SOURCE))

eth_src_addr(data) ==
    address_from_bytes(slice(data, ETH_SOURCE, ETH_ETHERTYPE))

eth_payload(data) == slice(data, ETH_HEADER_LEN, Len(data))

eth_set_dst_addr(data, value) ==
    copy_into(data, ETH_DESTINATION, address_as_bytes(value))

eth_set_src_addr_at_dst(data, value) ==
    copy_into(data, ETH_DESTINATION, address_as_bytes(value))

eth_set_src_addr(data, value) ==
    copy_into(data, ETH_SOURCE, address_as_bytes(value))

\* frame.payload_mut().copy_from_slice(src): src must have the payload's
\* length, which the slice copy asserts
eth_payload_mut_copy(data, src) == copy_into(data, ETH_HEADER_LEN, src)

MaxPayloadLen == 3

EthLens == ETH_HEADER_LEN..(ETH_HEADER_LEN + MaxPayloadLen)

MacSamples == { <<1, 2, 3, 4, 5, 6>>, <<17, 18, 19, 20, 21, 22>>,
                <<255, 255, 255, 255, 255, 255>> }

PayloadSamples(n) ==
    { [i \in 1..n |-> 170], [i \in 1..n |-> (i * 17) % 256] }

FrameFields == {"dst", "src", "type", "payload"}

\* shadow: the bytes the buffer held at construction, the fields written
\* since, and the value last written to each
InitEth ==
    /\ eth_buf \in CheckedBuffers(EthLens)
    /\ ip_buf = <<>>
    /\ icmp_buf = <<>>
    /\ op = [name |-> "eth.new_unchecked", arg |-> 0]
    /\ ret = "none"
    /\ shadow = [init |-> eth_buf, written |-> {},
                 dst |-> <<>>, src |-> <<>>, type |-> "none", payload |-> <<>>]

EthSetDstAddr ==
    \E a \in MacSamples :
        /\ eth_buf' = eth_set_dst_addr(eth_buf, a)
        /\ op' = [name |-> "eth.set_dst_addr", arg |-> a]
        /\ ret' = "unit"
        /\ shadow' = [shadow EXCEPT !.written = @ \cup {"dst"}, !.dst = a]
        /\ UNCHANGED <<ip_buf, icmp_buf>>

EthSetSrcAddr ==
    \E a \in MacSamples :
        /\ eth_buf' = eth_set_src_addr(eth_buf, a)
        /\ op' = [name |-> "eth.set_src_addr", arg |-> a]
        /\ ret' = "unit"
        /\ shadow' = [shadow EXCEPT !.written = @ \cup {"src"}, !.src = a]
        /\ UNCHANGED <<ip_buf, icmp_buf>>

EthFrameSetEtherType ==
    \E t \in EtherTypes :
        /\ eth_buf' = eth_set_ether_type(eth_buf, t)
        /\ op' = [name |-> "eth.set_ether_type", arg |-> t]
        /\ ret' = "unit"
        /\ shadow' = [shadow EXCEPT !.written = @ \cup {"type"}, !.type = t]
        /\ UNCHANGED <<ip_buf, icmp_buf>>

EthWritePayload ==
    \E p \in PayloadSamples(Len(eth_buf) - ETH_HEADER_LEN) :
        /\ eth_buf' = eth_payload_mut_copy(eth_buf, p)
        /\ op' = [name |-> "eth.payload_mut", arg |-> p]
        /\ ret' = "unit"
        /\ shadow' = [shadow EXCEPT !.written = @ \cup {"payload"}, !.payload = p]
        /\ UNCHANGED <<ip_buf, icmp_buf>>

NextEth ==
    \/ EthSetDstAddr
    \/ EthSetSrcAddr
    \/ EthFrameSetEtherType
    \/ EthWritePayload

SpecEth == InitEth /\ [][NextEth]_vars

BE16(v) == << v \div 256, v % 256 >>

\* the bytes a field holds: what was last written to it, or the bytes the
\* buffer was constructed with when nothing has been written to it yet
ExpectedField(f, from, to, written_bytes) ==
    IF f \in shadow.written THEN written_bytes
    ELSE slice(shadow.init, from, to)

\* C12: on a buffer of at least 14 bytes with arbitrary prior contents,
\* after set_dst_addr(d), set_src_addr(s), set_ether_type(t) and copying p
\* into payload_mut(), in any order, the buffer is d ++ s ++ the big-endian
\* 16-bit code of t ++ p; each write leaves the bytes outside its own field
\* unchanged; dst_addr(), src_addr(), ether_type() and payload() read back
\* d, s, t and p.
C12_FrameLayout ==
    /\ Len(eth_buf) = Len(shadow.init)
    /\ slice(eth_buf, 0, 6) = ExpectedField("dst", 0, 6, shadow.dst)
    /\ slice(eth_buf, 6, 12) = ExpectedField("src", 6, 12, shadow.src)
    /\ slice(eth_buf, 12, 14) =
           ExpectedField("type", 12, 14, BE16(ether_type_into_u16(shadow.type)))
    /\ slice(eth_buf, 14, Len(eth_buf)) =
           ExpectedField("payload", 14, Len(eth_buf), shadow.payload)
    /\ "dst" \in shadow.written => eth_dst_addr(eth_buf) = shadow.dst
    /\ "src" \in shadow.written => eth_src_addr(eth_buf) = shadow.src
    /\ "type" \in shadow.written => eth_ether_type(eth_buf) = shadow.type
    /\ "payload" \in shadow.written => eth_payload(eth_buf) = shadow.payload
    /\ shadow.written = FrameFields =>
           eth_buf = shadow.dst \o shadow.src
                     \o BE16(ether_type_into_u16(shadow.type)) \o shadow.payload

\* all four fields written over a 0xA5-filled buffer, the type last
C12_Witness ==
    /\ shadow.written = FrameFields
    /\ shadow.init[1] = 165
    /\ op.name = "eth.set_ether_type"
    /\ eth_buf = <<1, 2, 3, 4, 5, 6, 17, 18, 19, 20, 21, 22, 8, 0, 170, 170, 170>>

\* C13: payload_mut on an IPv4 buffer that passed check_len hands out
\* exactly the bytes [header_len .. total_len): the range is well-formed
\* and inside the buffer, so the call does not panic, a write through the
\* slice changes those bytes and no other, and no byte at an index of
\* total_len or more is reached even when the buffer is longer.
C13_PayloadRange ==
    [][ (op'.name = "ipv4.payload_mut" /\ ipv4_check_len(ip_buf) = "Ok") =>
            LET hl == ipv4_header_len(ip_buf)
                tl == ipv4_total_len(ip_buf)
            IN  /\ ret' = "unit"
                /\ hl <= tl
                /\ tl <= Len(ip_buf)
                /\ Len(ip_buf') = Len(ip_buf)
                /\ \A i \in 1..Len(ip_buf) :
                      ip_buf'[i] = IF hl < i /\ i <= tl THEN op'.arg
                                   ELSE ip_buf[i]
      ]_vars

\* a 31-byte zero-filled buffer declaring 24 bytes, payload written with 0xA5
C13_Witness ==
    /\ op.name = "ipv4.payload_mut"
    /\ op.arg = 165
    /\ ret = "unit"
    /\ ipv4_check_len(ip_buf) = "Ok"
    /\ Len(ip_buf) = 31
    /\ ipv4_header_len(ip_buf) = 20
    /\ ipv4_total_len(ip_buf) = 24
    /\ slice(ip_buf, 20, 24) = <<165, 165, 165, 165>>
    /\ ip_buf[25] = 0

(***************************************************************************)
(* The checksum functions as pure functions: checksum::data and            *)
(* checksum::combine of src/src/lib.rs, and checksum::result of            *)
(* src/src/ip.rs, applied to regions drawn at construction.                *)
(***************************************************************************)
RECURSIVE sum_checksums(_, _)
sum_checksums(checksums, accum) ==
    IF Len(checksums) = 0 THEN accum
    ELSE sum_checksums(Tail(checksums), accum + Head(checksums))

checksum_combine_no_carry(checksums) == sum_checksums(checksums, 0) % 65536

\* for &word in checksums { accum += word as u32 }; propagate_carries(accum)
checksum_combine(checksums) == propagate_carries(sum_checksums(checksums, 0))

\* ip.rs checksum::result, the loop over i in (0..len).step_by(2): index 10
\* is skipped; `i + 1 > len` never holds inside the loop, so for an odd
\* length the last read_u16 is handed a one-byte slice and panics, unless
\* that last index is the skipped one
RECURSIVE result_loop(_, _, _)
result_loop(data, i, accum) ==
    IF i >= Len(data) THEN [panic |-> FALSE, accum |-> accum]
    ELSE IF i = 10 THEN result_loop(data, i + 2, accum)
    ELSE IF i + 1 > Len(data) THEN [panic |-> FALSE, accum |-> accum]
    ELSE IF Len(data) - i < 2 THEN [panic |-> TRUE, accum |-> accum]
    ELSE result_loop(data, i + 2, accum + read_u16(data, i))

\* !((accum >> 16) as u16 + accum as u16): one fold, in u16 arithmetic.  When
\* the two halves add up past 0xFFFF a build with overflow checks panics and
\* a build without them wraps; both outcomes are returned.
checksum_result(data) ==
    LET loop  == result_loop(data, 0, 0)
        accum == IF Len(data) % 2 # 0
                 THEN loop.accum + data[Len(data)] * 256
                 ELSE loop.accum
        hi    == Shr(accum, 16) % 65536
        lo    == accum % 65536
    IN  IF loop.panic THEN { [status |-> "panic", value |-> 0] }
        ELSE IF hi + lo > 65535
        THEN { [status |-> "panic", value |-> 0],
               [status |-> "Ok", value |-> Not16((hi + lo) % 65536)] }
        ELSE { [status |-> "Ok", value |-> Not16(hi + lo)] }

MaxDataLen == 66

MaxRegions == 3

\* buffers of every length up to MaxDataLen in four byte patterns, every
\* buffer of up to three bytes over {0, 1, 255}, and 20-byte IPv4 headers
PatternBuffers ==
    { [i \in 1..n |-> f] : n \in 0..MaxDataLen, f \in FillSamples }
    \cup { [i \in 1..n |-> (i * 37) % 256] : n \in 0..MaxDataLen }

SmallBytes == {0, 1, 255}

SmallBuffers ==
    { <<a>> : a \in SmallBytes }
    \cup { <<a, b>> : a \in SmallBytes, b \in SmallBytes }
    \cup { <<a, b, c>> : a \in SmallBytes, b \in SmallBytes, c \in SmallBytes }

HeaderWordSamples == {0, 28, 47871, 47872, 65535}

ZeroHeader == [i \in 1..IPV4_DST_ADDR_END |-> 0]

MkHeader(w1, w2, c) ==
    write_u16(write_u16(write_u16(write_u16(ZeroHeader,
        IPV4_VER_IHL, 17664), IPV4_LENGTH, w1), IPV4_IDENT, w2),
        IPV4_CHECKSUM, c)

HeaderBuffers ==
    { MkHeader(w1, w2, c) : w1 \in HeaderWordSamples, w2 \in HeaderWordSamples,
                            c \in {0, 65534, 65535} }
    \cup { ipv4_fill_checksum(MkHeader(w1, w2, 0)) :
               w1 \in HeaderWordSamples, w2 \in HeaderWordSamples }

ChecksumInputs == PatternBuffers \cup SmallBuffers \cup HeaderBuffers

RegionSamples ==
    { <<>>, <<1>>, <<165>>, <<0, 1>>, <<255, 255>>, <<255, 255, 255>>,
      <<18, 52, 86, 120>>, [i \in 1..(CHUNK_SIZE + 2) |-> (i * 37) % 256] }

RegionLists ==
    UNION { [1..k -> RegionSamples] : k \in 0..MaxRegions }

InitChecksum ==
    /\ \/ /\ ip_buf \in ChecksumInputs
          /\ shadow = [regions |-> <<>>]
       \/ /\ ip_buf = <<>>
          /\ \E rs \in RegionLists : shadow = [regions |-> rs]
    /\ icmp_buf = <<>>
    /\ eth_buf = <<>>
    /\ op = [name |-> "none", arg |-> 0]
    /\ ret = [status |-> "none", value |-> 0]

ChecksumData ==
    /\ op' = [name |-> "checksum.data", arg |-> 0]
    /\ ret' = [status |-> "Ok", value |-> checksum_data(ip_buf)]
    /\ UNCHANGED <<ip_buf, icmp_buf, eth_buf, shadow>>

\* checksum::combine(&[checksum::data(r1), .., checksum::data(rk)])
ChecksumCombine ==
    /\ op' = [name |-> "checksum.combine", arg |-> 0]
    /\ ret' = [status |-> "Ok",
               value  |-> checksum_combine(
                   [i \in 1..Len(shadow.regions) |->
                        checksum_data(shadow.regions[i])])]
    /\ UNCHANGED <<ip_buf, icmp_buf, eth_buf, shadow>>

ChecksumResult ==
    /\ op' = [name |-> "ip.checksum.result", arg |-> 0]
    /\ ret' \in checksum_result(ip_buf)
    /\ UNCHANGED <<ip_buf, icmp_buf, eth_buf, shadow>>

NextChecksum ==
    \/ ChecksumData
    \/ ChecksumCombine
    \/ ChecksumResult

SpecChecksum == InitChecksum /\ [][NextChecksum]_vars

\* end-around carry: fold the bits above 16 back in until the value fits
RECURSIVE FoldCarries(_)
FoldCarries(total) ==
    IF total < 65536 THEN total
    ELSE FoldCarries((total \div 65536) + (total % 65536))

\* C14: checksum::data(buf) is the RFC 1071 sum of buf (big-endian 16-bit
\* words, an odd last byte padded with a zero low byte, carries folded until
\* the value fits in 16 bits, not complemented) for every buffer: empty, of
\* odd length, shorter than, equal to and longer than the 32-byte chunk.
C14_DataIsRfc1071 ==
    op.name = "checksum.data" =>
        ret.value = FoldCarries(WordTotal(ip_buf, 1))

\* a 65-byte buffer (two chunks and an odd byte) whose sum needs a carry fold
C14_Witness ==
    /\ op.name = "checksum.data"
    /\ Len(ip_buf) = 2 * CHUNK_SIZE + 1
    /\ WordTotal(ip_buf, 1) > 65535
    /\ ret.value = FoldCarries(WordTotal(ip_buf, 1))

RECURSIVE Concat(_)
Concat(rs) == IF Len(rs) = 0 THEN <<>> ELSE Head(rs) \o Concat(Tail(rs))

AllButLastEven(rs) ==
    \A i \in 1..(Len(rs) - 1) : Len(rs[i]) % 2 = 0

\* C15 as stated: for any regions r1..rk, combine([data(r1), .., data(rk)])
\* equals data(r1 ++ .. ++ rk).
C15_CombineAnyRegions ==
    op.name = "checksum.combine" =>
        ret.value = checksum_data(Concat(shadow.regions))

\* C15: for regions r1..rk of which every one but the last has an even
\* length, combine([data(r1), .., data(rk)]) equals data(r1 ++ .. ++ rk).
C15_CombineEvenRegions ==
    (op.name = "checksum.combine" /\ AllButLastEven(shadow.regions)) =>
        ret.value = checksum_data(Concat(shadow.regions))

\* three regions, the last of odd length, whose sums add up past 16 bits
C15_Witness ==
    /\ op.name = "checksum.combine"
    /\ shadow.regions = << <<255, 255>>, <<18, 52, 86, 120>>, <<255, 255, 255>> >>
    /\ ret.value = checksum_data(<<255, 255, 18, 52, 86, 120, 255, 255, 255>>)

\* C16: the two verification formulations agree on every header: the
\* complement of the sum computed with the checksum field left out
\* (ip.rs checksum::result) equals the stored checksum exactly when the sum
\* over the header as received (verify_checksum) is 0xFFFF.
C16_FormulationsAgree ==
    (/\ op.name = "ip.checksum.result"
     /\ Len(ip_buf) = IPV4_DST_ADDR_END
     /\ ipv4_header_len(ip_buf) = IPV4_DST_ADDR_END) =>
        ((ret.status = "Ok" /\ ret.value = ipv4_checksum(ip_buf))
            <=> ipv4_verify_checksum(ip_buf))

(***************************************************************************)
(* Corruption in transit: an ICMPv4 message is checksummed, one bit of the *)
(* buffer is inverted on the way, and the receiver verifies it.  FlipBit   *)
(* is the environment's step; the other two are the view's methods.        *)
(***************************************************************************)
MaxFlips == 1

IcmpFlipLens ==
    ICMP_HEADER_END .. (ICMP_HEADER_END + MaxBodyLen)

IcmpFlipBuffers ==
    { [i \in 1..len |-> fill] : len \in IcmpFlipLens, fill \in IcmpFillSamples }
        \cup { [i \in 1..len |-> (i * 37) % 256] :
                   len \in IcmpFlipLens \cup {CHUNK_SIZE + 1} }

RECURSIVE Pow2(_)
Pow2(k) == IF k = 0 THEN 1 ELSE 2 * Pow2(k - 1)

\* byte b with bit k inverted
FlipBitOf(b, k) ==
    IF (b \div Pow2(k)) % 2 = 1 THEN b - Pow2(k) ELSE b + Pow2(k)

\* shadow: how many bits were inverted so far, whether one was inverted
\* since the checksum was last filled, and where
InitIcmpFlip ==
    /\ icmp_buf \in IcmpFlipBuffers
    /\ ip_buf = <<>>
    /\ eth_buf = <<>>
    /\ op = [name |-> "icmp.new_unchecked", arg |-> 0]
    /\ ret = "none"
    /\ shadow = [flips |-> 0, corrupt |-> FALSE, at |-> <<0, 0>>]

IcmpFillBeforeSend ==
    /\ icmp_buf' = icmp_fill_checksum(icmp_buf)
    /\ op' = [name |-> "icmp.fill_checksum", arg |-> 0]
    /\ ret' = "unit"
    /\ shadow' = [shadow EXCEPT !.corrupt = FALSE]
    /\ UNCHANGED <<ip_buf, eth_buf>>

FlipBit ==
    /\ op.name = "icmp.fill_checksum"
    /\ shadow.flips < MaxFlips
    /\ \E i \in 1..Len(icmp_buf), k \in 0..7 :
          /\ icmp_buf' = [icmp_buf EXCEPT ![i] = FlipBitOf(@, k)]
          /\ op' = [name |-> "flip_bit", arg |-> <<i, k>>]
          /\ shadow' = [flips |-> shadow.flips + 1, corrupt |-> TRUE,
                        at |-> <<i, k>>]
    /\ ret' = "none"
    /\ UNCHANGED <<ip_buf, eth_buf>>

NextIcmpFlip ==
    \/ IcmpFillBeforeSend
    \/ FlipBit
    \/ IcmpVerifyChecksum

SpecIcmpFlip == InitIcmpFlip /\ [][NextIcmpFlip]_vars

\* C17: after fill_checksum on any ICMPv4 buffer of at least 8 bytes,
\* inverting any single bit anywhere in the buffer (type, code, checksum
\* field, identifier, sequence number or body) makes verify_checksum return
\* false.
C17_SingleBitFlipDetected ==
    shadow.corrupt =>
        /\ ~icmp_verify_checksum(icmp_buf)
        /\ op.name = "icmp.verify_checksum" => ret = "false"

\* the last byte of a 9-byte message was hit and the receiver rejected it
C17_Witness ==
    /\ shadow.corrupt
    /\ Len(icmp_buf) = 9
    /\ shadow.at[1] = 9
    /\ op.name = "icmp.verify_checksum"
    /\ ret = "false"

(***************************************************************************)
(* IP version detection (src/src/ip.rs)                                    *)
(***************************************************************************)
version_of_packet_low_nibble(data) ==
    IF Len(data) = 0 THEN "panic"
    ELSE CASE BitAnd(data[1], 15) = 4 -> "Ok(IPv4)"
           [] BitAnd(data[1], 15) = 6 -> "Ok(IPv6)"
           [] OTHER                   -> "Err(Unrecognized)"

\* match data[0] >> 4 { 4 => Ok(IPv4), 6 => Ok(IPv6), _ => Err(Unrecognized) };
\* data[0] on an empty slice panics
version_of_packet(data) ==
    IF Len(data) = 0 THEN "panic"
    ELSE CASE Shr(data[1], 4) = 4 -> "Ok(IPv4)"
           [] Shr(data[1], 4) = 6 -> "Ok(IPv6)"
           [] OTHER               -> "Err(Unrecognized)"

MaxTailLen == 2

\* every first byte, followed by up to MaxTailLen bytes of 0x00 or 0xFF
VersionBuffers ==
    { <<>> } \cup
    { <<b>> \o [i \in 1..n |-> f] : b \in 0..255, n \in 0..MaxTailLen,
                                   f \in {0, 255} }

InitVersion ==
    /\ ip_buf \in VersionBuffers
    /\ icmp_buf = <<>>
    /\ eth_buf = <<>>
    /\ op = [name |-> "none", arg |-> 0]
    /\ ret = "none"
    /\ shadow = NoShadow

VersionOfPacket ==
    /\ op' = [name |-> "Version.of_packet", arg |-> 0]
    /\ ret' = version_of_packet(ip_buf)
    /\ UNCHANGED <<ip_buf, icmp_buf, eth_buf, shadow>>

NextVersion == VersionOfPacket

SpecVersion == InitVersion /\ [][NextVersion]_vars

\* C19: on a non-empty buffer Version::of_packet returns Ok(IPv4) when the
\* high nibble of byte 0 is 4, Ok(IPv6) when it is 6 and Err(Unrecognized)
\* for every other nibble; it never returns Unsupported, and the result
\* depends on no other byte.
C19_VersionOfPacket ==
    (op.name = "Version.of_packet" /\ Len(ip_buf) > 0) =>
        LET nibble == ip_buf[1] \div 16 IN
        /\ ret = IF nibble = 4 THEN "Ok(IPv4)"
                 ELSE IF nibble = 6 THEN "Ok(IPv6)"
                 ELSE "Err(Unrecognized)"
        /\ ret \notin {"Ok(Unsupported)", "Unsupported"}

\* 0x64 followed by 0xFF 0xFF is an IPv6 packet
C19_Witness ==
    /\ op.name = "Version.of_packet"
    /\ ip_buf = <<100, 255, 255>>
    /\ ret = "Ok(IPv6)"

(***************************************************************************)
(* MAC address classification (src/src/ethernet.rs, impl Address)          *)
(***************************************************************************)
ADDRESS_BROADCAST == <<255, 255, 255, 255, 255, 255>>

address_is_broadcast(addr) == addr = ADDRESS_BROADCAST

address_is_multicast_exact(addr) == addr[1] = 1

address_is_multicast(addr) == BitAnd(addr[1], 1) = 1

address_is_unicast(addr) ==
    ~address_is_broadcast(addr) /\ ~address_is_multicast(addr)

address_is_local(addr) == BitAnd(addr[1], 2) # 0

\* frames whose destination has every first byte and a tail of 0x00 or 0xFF
MacFirstByteSamples == {0, 1, 2, 3, 254, 255}

MacBuffers ==
    { <<b0, r, r, r, r, r, s0, r, r, r, r, r, 8, 0>> :
          b0 \in 0..255, r \in {0, 255}, s0 \in MacFirstByteSamples }

InitMac ==
    /\ eth_buf \in MacBuffers
    /\ ip_buf = <<>>
    /\ icmp_buf = <<>>
    /\ op = [name |-> "eth.new_unchecked", arg |-> 0]
    /\ ret = "none"
    /\ shadow = [init |-> eth_buf, written |-> {},
                 dst |-> <<>>, src |-> <<>>, type |-> "none", payload |-> <<>>]

NextMac ==
    \/ EthSetDstAddr
    \/ EthSetSrcAddr

SpecMac == InitMac /\ [][NextMac]_vars

MacClassified(addr) ==
    /\ address_is_multicast(addr) <=> (addr[1] % 2 = 1)
    /\ address_is_local(addr) <=> ((addr[1] \div 2) % 2 = 1)
    /\ address_is_unicast(addr) <=>
           (~address_is_broadcast(addr) /\ ~address_is_multicast(addr))
    /\ address_is_broadcast(addr) => address_is_multicast(addr)
    /\ address_is_broadcast(addr) <=> (\A i \in 1..6 : addr[i] = 255)
    /\ (\A i \in 1..6 : addr[i] = 255) =>
           /\ address_is_broadcast(addr)
           /\ address_is_multicast(addr)
           /\ address_is_local(addr)
           /\ ~address_is_unicast(addr)

\* C20: for every 6-byte address, is_multicast is bit 0 of byte 0, is_local
\* is bit 1 of byte 0, is_unicast holds exactly when the address is neither
\* broadcast nor multicast, and every broadcast address is multicast;
\* FF:FF:FF:FF:FF:FF is broadcast, multicast, local and not unicast.
C20_MacClassification ==
    /\ MacClassified(eth_dst_addr(eth_buf))
    /\ MacClassified(eth_src_addr(eth_buf))

\* the broadcast address written as destination next to a unicast,
\* locally administered source
C20_Witness ==
    /\ op.name = "eth.set_dst_addr"
    /\ address_is_broadcast(eth_dst_addr(eth_buf))
    /\ address_is_local(eth_dst_addr(eth_buf))
    /\ ~address_is_unicast(eth_dst_addr(eth_buf))
    /\ eth_src_addr(eth_buf)[1] = 2
    /\ address_is_unicast(eth_src_addr(eth_buf))
    /\ address_is_local(eth_src_addr(eth_buf))

(***************************************************************************)
(* Remaining IPv4 and ICMPv4 accessors used when the layers are stacked.   *)
(***************************************************************************)
ipv4_address_from_bytes(data) == [i \in 1..4 |-> data[i]]

ipv4_address_as_bytes(addr) == addr

ipv4_ident(data) == read_u16(data, IPV4_IDENT)

ipv4_hop_limit(data) == data[IPV4_TTL + 1]

ipv4_src_addr(data) ==
    ipv4_address_from_bytes(slice(data, IPV4_SRC_ADDR, IPV4_DST_ADDR))

ipv4_dst_addr(data) ==
    ipv4_address_from_bytes(slice(data, IPV4_DST_ADDR, IPV4_DST_ADDR_END))

ipv4_set_ident(data, value) == write_u16(data, IPV4_IDENT, value)

ipv4_set_hop_limit_at_protocol(data, value) == write_u8(data, IPV4_PROTOCOL, value)

ipv4_set_hop_limit(data, value) == write_u8(data, IPV4_TTL, value)

ipv4_set_src_addr(data, addr) ==
    copy_into(data, IPV4_SRC_ADDR, ipv4_address_as_bytes(addr))

ipv4_set_dst_addr_past_header(data, addr) ==
    copy_into(data, IPV4_DST_ADDR_END, ipv4_address_as_bytes(addr))

ipv4_set_dst_addr(data, addr) ==
    copy_into(data, IPV4_DST_ADDR, ipv4_address_as_bytes(addr))

\* both Echo arms end at ECHO_SEQNO.end and the catch-all at UNUSED.end: 8
icmp_header_len(data) ==
    IF icmp_msg_type(data) \in {"EchoRequest", "EchoReply"}
    THEN ICMP_HEADER_END ELSE ICMP_HEADER_END

\* packet.data_mut().copy_from_slice(src)
icmp_data_mut_copy(data, src) == copy_into(data, icmp_header_len(data), src)

(***************************************************************************)
(* Stacking the layers, as test_protocol does: an ICMPv4 Echo Request is   *)
(* built and checksummed, an IPv4 packet is built around it and an         *)
(* Ethernet frame around that.  The three buffers are built independently  *)
(* and a layer is copied down once it is complete.                         *)
(***************************************************************************)
E2E_DST_MAC == <<1, 2, 3, 4, 5, 6>>

E2E_SRC_MAC == <<17, 18, 19, 20, 21, 22>>

E2E_SRC_IP == <<172, 27, 60, 82>>

E2E_DST_IP == <<10, 10, 10, 1>>

E2E_HOP_LIMIT == 32

\* total lengths the IPv4 packet is built with: the header and an 8-byte
\* ICMPv4 header, and the header and the whole 12-byte message
E2eTotalLens == {IPV4_DST_ADDR_END + 8, IPV4_DST_ADDR_END + 12}

E2eBodies == { <<65, 66, 67, 68>>, <<255, 255, 255, 255>> }

\* let mut bytes = vec![0; n] for each layer
InitE2e ==
    /\ \E tl \in E2eTotalLens, ident \in IdentSamples, seq \in SeqNoSamples,
          body \in E2eBodies :
          /\ shadow = [total_len |-> tl, ident |-> ident, seq_no |-> seq,
                       body |-> body, icmp |-> "new", ip_header |-> FALSE,
                       ip_filled |-> FALSE, ip_payload |-> FALSE,
                       frame_header |-> FALSE, frame_payload |-> FALSE,
                       panicked |-> FALSE]
          /\ icmp_buf = [i \in 1..(ICMP_HEADER_END + Len(body)) |-> 0]
          /\ ip_buf = [i \in 1..tl |-> 0]
          /\ eth_buf = [i \in 1..(ETH_HEADER_LEN + tl) |-> 0]
    /\ op = [name |-> "new_unchecked", arg |-> 0]
    /\ ret = "none"

E2eIcmpHeader ==
    /\ ~shadow.panicked
    /\ shadow.icmp = "new"
    /\ icmp_buf' = icmp_set_echo_seq_no(
                     icmp_set_echo_ident(
                       icmp_set_msg_code(
                         icmp_set_msg_type(icmp_buf, "EchoRequest"), 0),
                       shadow.ident),
                     shadow.seq_no)
    /\ shadow' = [shadow EXCEPT !.icmp = "header"]
    /\ op' = [name |-> "icmp.set_header", arg |-> 0]
    /\ ret' = "unit"
    /\ UNCHANGED <<ip_buf, eth_buf>>

E2eIcmpData ==
    /\ ~shadow.panicked
    /\ shadow.icmp = "header"
    /\ icmp_buf' = icmp_data_mut_copy(icmp_buf, shadow.body)
    /\ shadow' = [shadow EXCEPT !.icmp = "data"]
    /\ op' = [name |-> "icmp.data_mut", arg |-> 0]
    /\ ret' = "unit"
    /\ UNCHANGED <<ip_buf, eth_buf>>

E2eIcmpFill ==
    /\ ~shadow.panicked
    /\ shadow.icmp = "data"
    /\ icmp_buf' = icmp_fill_checksum(icmp_buf)
    /\ shadow' = [shadow EXCEPT !.icmp = "filled"]
    /\ op' = [name |-> "icmp.fill_checksum", arg |-> 0]
    /\ ret' = "unit"
    /\ UNCHANGED <<ip_buf, eth_buf>>

E2eIpv4HeaderBytes(data, total_len) ==
    LET b1  == ipv4_set_version(data, 4)
        b2  == ipv4_set_header_len(b1, 20)
        b3  == ipv4_clear_flags(b2)
        b4  == ipv4_set_dscp(b3, 0)
        b5  == ipv4_set_ecn(b4, 0)
        b6  == ipv4_set_total_len(b5, total_len)
        b7  == ipv4_set_ident(b6, 0)
        b8  == ipv4_set_more_frags(b7, FALSE)
        b9  == ipv4_set_dont_frag(b8, TRUE)
        b10 == ipv4_set_frag_offset(b9, 0)
        b11 == ipv4_set_hop_limit(b10, E2E_HOP_LIMIT)
        b12 == ipv4_set_protocol(b11, "ICMP")
        b13 == ipv4_set_src_addr(b12, E2E_SRC_IP)
    IN  ipv4_set_dst_addr(b13, E2E_DST_IP)

E2eIpv4Header ==
    /\ ~shadow.panicked
    /\ ~shadow.ip_header
    /\ ip_buf' = E2eIpv4HeaderBytes(ip_buf, shadow.total_len)
    /\ shadow' = [shadow EXCEPT !.ip_header = TRUE]
    /\ op' = [name |-> "ipv4.set_header", arg |-> 0]
    /\ ret' = "unit"
    /\ UNCHANGED <<icmp_buf, eth_buf>>

E2eIpv4Fill ==
    /\ ~shadow.panicked
    /\ shadow.ip_header
    /\ ~shadow.ip_filled
    /\ ip_buf' = ipv4_fill_checksum(ip_buf)
    /\ shadow' = [shadow EXCEPT !.ip_filled = TRUE]
    /\ op' = [name |-> "ipv4.fill_checksum", arg |-> 0]
    /\ ret' = "unit"
    /\ UNCHANGED <<icmp_buf, eth_buf>>

\* ipv4_packet.payload_mut().copy_from_slice(packet.as_ref()): the slice
\* index panics on a range outside the buffer and copy_from_slice panics
\* when the two lengths differ
E2eIpv4Payload ==
    /\ ~shadow.panicked
    /\ shadow.ip_header
    /\ shadow.icmp = "filled"
    /\ ~shadow.ip_payload
    /\ op' = [name |-> "ipv4.payload_mut", arg |-> 0]
    /\ LET range == ipv4_payload_range(ip_buf) IN
       IF /\ ipv4_payload_range_ok(ip_buf)
          /\ range.end - range.start = Len(icmp_buf)
       THEN /\ ip_buf' = copy_into(ip_buf, range.start, icmp_buf)
            /\ shadow' = [shadow EXCEPT !.ip_payload = TRUE]
            /\ ret' = "unit"
       ELSE /\ ip_buf' = ip_buf
            /\ shadow' = [shadow EXCEPT !.panicked = TRUE]
            /\ ret' = "panic"
    /\ UNCHANGED <<icmp_buf, eth_buf>>

E2eFrameHeader ==
    /\ ~shadow.panicked
    /\ ~shadow.frame_header
    /\ eth_buf' = eth_set_ether_type(
                    eth_set_src_addr(
                      eth_set_dst_addr(eth_buf, E2E_DST_MAC), E2E_SRC_MAC),
                    "IPv4")
    /\ shadow' = [shadow EXCEPT !.frame_header = TRUE]
    /\ op' = [name |-> "eth.set_header", arg |-> 0]
    /\ ret' = "unit"
    /\ UNCHANGED <<ip_buf, icmp_buf>>

\* frame.payload_mut().copy_from_slice(ipv4_packet.as_ref())
E2eFramePayload ==
    /\ ~shadow.panicked
    /\ shadow.ip_filled
    /\ shadow.ip_payload
    /\ ~shadow.frame_payload
    /\ op' = [name |-> "eth.payload_mut", arg |-> 0]
    /\ IF Len(eth_buf) - ETH_HEADER_LEN = Len(ip_buf)
       THEN /\ eth_buf' = eth_payload_mut_copy(eth_buf, ip_buf)
            /\ shadow' = [shadow EXCEPT !.frame_payload = TRUE]
            /\ ret' = "unit"
       ELSE /\ eth_buf' = eth_buf
            /\ shadow' = [shadow EXCEPT !.panicked = TRUE]
            /\ ret' = "panic"
    /\ UNCHANGED <<ip_buf, icmp_buf>>

NextE2e ==
    \/ E2eIcmpHeader
    \/ E2eIcmpData
    \/ E2eIcmpFill
    \/ E2eIpv4Header
    \/ E2eIpv4Fill
    \/ E2eIpv4Payload
    \/ E2eFrameHeader
    \/ E2eFramePayload

SpecE2e == InitE2e /\ [][NextE2e]_vars

Assembled == shadow.frame_header /\ shadow.frame_payload

\* decoding the three layers in turn from the frame buffer
Decoded ==
    LET ip   == eth_payload(eth_buf)
        icmp == slice(ip, ipv4_header_len(ip), ipv4_total_len(ip))
    IN  /\ eth_check_len(eth_buf) = "Ok"
        /\ eth_dst_addr(eth_buf) = E2E_DST_MAC
        /\ eth_src_addr(eth_buf) = E2E_SRC_MAC
        /\ eth_ether_type(eth_buf) = "IPv4"
        /\ ipv4_check_len(ip) = "Ok"
        /\ ipv4_version(ip) = 4
        /\ ipv4_header_len(ip) = 20
        /\ ipv4_total_len(ip) = shadow.total_len
        /\ ipv4_ident(ip) = 0
        /\ ipv4_dont_frag(ip)
        /\ ~ipv4_more_frags(ip)
        /\ ipv4_frag_offset(ip) = 0
        /\ ipv4_hop_limit(ip) = E2E_HOP_LIMIT
        /\ ipv4_protocol(ip) = "ICMP"
        /\ ipv4_src_addr(ip) = E2E_SRC_IP
        /\ ipv4_dst_addr(ip) = E2E_DST_IP
        /\ ipv4_verify_checksum(ip)
        /\ icmp_check_len(icmp) = "Ok"
        /\ icmp_msg_type(icmp) = "EchoRequest"
        /\ icmp_msg_code(icmp) = 0
        /\ icmp_echo_ident(icmp) = shadow.ident
        /\ icmp_echo_seq_no(icmp) = shadow.seq_no
        /\ slice(icmp, icmp_header_len(icmp), Len(icmp)) = shadow.body
        /\ icmp_verify_checksum(icmp)

\* C18 as stated: with an IPv4 total length of 28 the frame is assembled
\* and decodes to every field as set, both checksums verifying.
C18_EndToEndTotalLen28 ==
    shadow.total_len = 28 =>
        /\ ~shadow.panicked
        /\ Assembled => Decoded

\* C18: with an IPv4 total length of 32 (the 20-byte header and the 12-byte
\* Echo Request), no step of the construction panics, and decoding each
\* layer in turn from the assembled frame reproduces every field as set,
\* both verify_checksum calls returning true.
C18_EndToEndTotalLen32 ==
    shadow.total_len = 32 =>
        /\ ~shadow.panicked
        /\ Assembled => Decoded

\* the frame of the scenario, assembled and decoded
C18_Witness ==
    /\ shadow.total_len = 32
    /\ shadow.ident = 4660
    /\ shadow.seq_no = 43981
    /\ shadow.body = <<65, 66, 67, 68>>
    /\ Assembled
    /\ Decoded
    /\ Len(eth_buf) = 46

(***************************************************************************)
(* The field setters of the three views, called in any order on one        *)
(* buffer.  Each setter indexes the buffer with its field's constant       *)
(* offset or range; the index panics when the field ends past the buffer.  *)
(***************************************************************************)
\* the half-open byte range a setter of the IPv4 view indexes
ipv4_setter_field(name) ==
    CASE name \in {"set_version", "set_header_len"} ->
             [lo |-> IPV4_VER_IHL, hi |-> IPV4_VER_IHL + 1]
      [] name \in {"set_dscp", "set_ecn"} ->
             [lo |-> IPV4_DSCP_ECN, hi |-> IPV4_DSCP_ECN + 1]
      [] name = "set_total_len" -> [lo |-> IPV4_LENGTH, hi |-> IPV4_IDENT]
      [] name = "set_ident" -> [lo |-> IPV4_IDENT, hi |-> IPV4_FLG_OFF]
      [] name \in {"clear_flags", "set_dont_frag", "set_more_frags",
                   "set_frag_offset"} ->
             [lo |-> IPV4_FLG_OFF, hi |-> IPV4_TTL]
      [] name = "set_hop_limit" -> [lo |-> IPV4_TTL, hi |-> IPV4_TTL + 1]
      [] name = "set_protocol" -> [lo |-> IPV4_PROTOCOL, hi |-> IPV4_PROTOCOL + 1]
      [] name = "set_checksum" -> [lo |-> IPV4_CHECKSUM, hi |-> IPV4_SRC_ADDR]
      [] name = "set_src_addr" -> [lo |-> IPV4_SRC_ADDR, hi |-> IPV4_DST_ADDR]
      [] name = "set_dst_addr" -> [lo |-> IPV4_DST_ADDR, hi |-> IPV4_DST_ADDR_END]

ipv4_apply_setter(data, name, arg) ==
    CASE name = "set_version"     -> ipv4_set_version(data, arg)
      [] name = "set_header_len"  -> ipv4_set_header_len(data, arg)
      [] name = "set_dscp"        -> ipv4_set_dscp(data, arg)
      [] name = "set_ecn"         -> ipv4_set_ecn(data, arg)
      [] name = "set_total_len"   -> ipv4_set_total_len(data, arg)
      [] name = "set_ident"       -> ipv4_set_ident(data, arg)
      [] name = "clear_flags"     -> ipv4_clear_flags(data)
      [] name = "set_dont_frag"   -> ipv4_set_dont_frag(data, arg)
      [] name = "set_more_frags"  -> ipv4_set_more_frags(data, arg)
      [] name = "set_frag_offset" -> ipv4_set_frag_offset(data, arg)
      [] name = "set_hop_limit"   -> ipv4_set_hop_limit(data, arg)
      [] name = "set_protocol"    -> ipv4_set_protocol(data, arg)
      [] name = "set_checksum"    -> ipv4_set_checksum(data, arg)
      [] name = "set_src_addr"    -> ipv4_set_src_addr(data, arg)
      [] name = "set_dst_addr"    -> ipv4_set_dst_addr(data, arg)

eth_setter_field(name) ==
    CASE name = "set_dst_addr"   -> [lo |-> ETH_DESTINATION, hi |-> ETH_SOURCE]
      [] name = "set_src_addr"   -> [lo |-> ETH_SOURCE, hi |-> ETH_ETHERTYPE]
      [] name = "set_ether_type" -> [lo |-> ETH_ETHERTYPE, hi |-> ETH_HEADER_LEN]

eth_apply_setter(data, name, arg) ==
    CASE name = "set_dst_addr"   -> eth_set_dst_addr(data, arg)
      [] name = "set_src_addr"   -> eth_set_src_addr(data, arg)
      [] name = "set_ether_type" -> eth_set_ether_type(data, arg)

\* set_msg_code only reads data[field::CODE]
icmp_setter_field(name) ==
    CASE name = "set_msg_type"    -> [lo |-> ICMP_TYPE, hi |-> ICMP_TYPE + 1]
      [] name = "set_msg_code"    -> [lo |-> ICMP_CODE, hi |-> ICMP_CODE + 1]
      [] name = "set_checksum"    -> [lo |-> ICMP_CHECKSUM, hi |-> ICMP_ECHO_IDENT]
      [] name = "set_echo_ident"  -> [lo |-> ICMP_ECHO_IDENT, hi |-> ICMP_ECHO_SEQNO]
      [] name = "set_echo_seq_no" -> [lo |-> ICMP_ECHO_SEQNO, hi |-> ICMP_HEADER_END]

icmp_apply_setter(data, name, arg) ==
    CASE name = "set_msg_type"    -> icmp_set_msg_type(data, arg)
      [] name = "set_msg_code"    -> icmp_set_msg_code(data, arg)
      [] name = "set_checksum"    -> icmp_set_checksum(data, arg)
      [] name = "set_echo_ident"  -> icmp_set_echo_ident(data, arg)
      [] name = "set_echo_seq_no" -> icmp_set_echo_seq_no(data, arg)

MaxSetterCalls == 2

U8Extremes == {0, 255}

U16Extremes == {0, 65535}

\* every setter with the extreme values of its argument type
Ipv4SetterCalls ==
    ({"set_version", "set_header_len", "set_dscp", "set_ecn",
      "set_hop_limit"} \X U8Extremes)
    \cup ({"set_total_len", "set_ident", "set_frag_offset", "set_checksum"}
              \X U16Extremes)
    \cup ({"set_dont_frag", "set_more_frags"} \X BOOLEAN)
    \cup {<<"clear_flags", 0>>}
    \cup ({"set_protocol"} \X {"ICMP", "Unsupported"})
    \cup ({"set_src_addr", "set_dst_addr"}
              \X {<<0, 0, 0, 0>>, <<255, 255, 255, 255>>})

EthSetterCalls ==
    ({"set_dst_addr", "set_src_addr"} \X MacSamples)
    \cup ({"set_ether_type"} \X EtherTypes)

IcmpSetterCalls ==
    ({"set_msg_type"} \X Messages)
    \cup ({"set_msg_code"} \X U8Extremes)
    \cup ({"set_checksum", "set_echo_ident", "set_echo_seq_no"} \X U16Extremes)

\* buffers one byte short of the fixed header, exactly as long, and longer,
\* and one much shorter; the IPv4 ones long enough declare 20 and 20 bytes
SetterLens(min) == {min \div 2, min - 1, min, min + 2}

SetterFills == {0, 255}

Ipv4SetterBuffers ==
    { IF len >= IPV4_DST_ADDR_END THEN MkIpv4Buf(len, 69, 20, f)
      ELSE [i \in 1..len |-> f] :
          len \in SetterLens(IPV4_DST_ADDR_END), f \in SetterFills }
    \cup { [i \in 1..len |-> f] :
          len \in SetterLens(IPV4_DST_ADDR_END), f \in SetterFills }

\* shadow: which view was constructed, the bytes it was constructed over,
\* what check_len says of them, and how many setters ran
InitSetters ==
    /\ \/ /\ ip_buf \in Ipv4SetterBuffers
          /\ eth_buf = <<>> /\ icmp_buf = <<>>
          /\ shadow = [view |-> "ipv4", init |-> ip_buf,
                       checked |-> ipv4_check_len(ip_buf),
                       calls |-> 0, panicked |-> FALSE]
       \/ /\ eth_buf \in CheckedBuffers(SetterLens(ETH_HEADER_LEN))
          /\ ip_buf = <<>> /\ icmp_buf = <<>>
          /\ shadow = [view |-> "eth", init |-> eth_buf,
                       checked |-> eth_check_len(eth_buf),
                       calls |-> 0, panicked |-> FALSE]
       \/ /\ icmp_buf \in CheckedBuffers(SetterLens(ICMP_HEADER_END))
          /\ ip_buf = <<>> /\ eth_buf = <<>>
          /\ shadow = [view |-> "icmp", init |-> icmp_buf,
                       checked |-> icmp_check_len(icmp_buf),
                       calls |-> 0, panicked |-> FALSE]
    /\ op = [name |-> "new_unchecked", arg |-> 0]
    /\ ret = "none"

SetterGuard(view) ==
    /\ shadow.view = view
    /\ ~shadow.panicked
    /\ shadow.calls < MaxSetterCalls

SetterShadow(ok) ==
    [shadow EXCEPT !.calls = @ + 1, !.panicked = ~ok]

Ipv4Setter ==
    /\ SetterGuard("ipv4")
    /\ \E call \in Ipv4SetterCalls :
          LET ok == ipv4_setter_field(call[1]).hi <= Len(ip_buf) IN
          /\ op' = [name |-> "ipv4." \o call[1], arg |-> call[2]]
          /\ ret' = IF ok THEN "unit" ELSE "panic"
          /\ ip_buf' = IF ok THEN ipv4_apply_setter(ip_buf, call[1], call[2])
                       ELSE ip_buf
          /\ shadow' = SetterShadow(ok)
    /\ UNCHANGED <<eth_buf, icmp_buf>>

EthSetter ==
    /\ SetterGuard("eth")
    /\ \E call \in EthSetterCalls :
          LET ok == eth_setter_field(call[1]).hi <= Len(eth_buf) IN
          /\ op' = [name |-> "eth." \o call[1], arg |-> call[2]]
          /\ ret' = IF ok THEN "unit" ELSE "panic"
          /\ eth_buf' = IF ok THEN eth_apply_setter(eth_buf, call[1], call[2])
                        ELSE eth_buf
          /\ shadow' = SetterShadow(ok)
    /\ UNCHANGED <<ip_buf, icmp_buf>>

IcmpSetter ==
    /\ SetterGuard("icmp")
    /\ \E call \in IcmpSetterCalls :
          LET ok == icmp_setter_field(call[1]).hi <= Len(icmp_buf) IN
          /\ op' = [name |-> "icmp." \o call[1], arg |-> call[2]]
          /\ ret' = IF ok THEN "unit" ELSE "panic"
          /\ icmp_buf' = IF ok THEN icmp_apply_setter(icmp_buf, call[1], call[2])
                         ELSE icmp_buf
          /\ shadow' = SetterShadow(ok)
    /\ UNCHANGED <<ip_buf, eth_buf>>

NextSetters ==
    \/ Ipv4Setter
    \/ EthSetter
    \/ IcmpSetter

SpecSetters == InitSetters /\ [][NextSetters]_vars

ViewBuffer ==
    CASE shadow.view = "ipv4" -> ip_buf
      [] shadow.view = "eth"  -> eth_buf
      [] shadow.view = "icmp" -> icmp_buf

FixedHeaderLen ==
    CASE shadow.view = "ipv4" -> 20
      [] shadow.view = "eth"  -> 14
      [] shadow.view = "icmp" -> 8

\* C21: on a buffer that passed check_len, every field setter of the
\* Ethernet, IPv4 and ICMPv4 views, in any order and with any argument,
\* completes without an out-of-bounds index and leaves every byte at index
\* 14, 20 and 8 or more, respectively, as it was.
C21_SettersInfallible ==
    shadow.checked = "Ok" =>
        /\ ret # "panic"
        /\ ~shadow.panicked
        /\ Len(ViewBuffer) = Len(shadow.init)
        /\ \A i \in (FixedHeaderLen + 1)..Len(ViewBuffer) :
              ViewBuffer[i] = shadow.init[i]

\* two setters ran on a checked 22-byte IPv4 buffer, the last one writing
\* the field that ends the header
C21_Witness ==
    /\ shadow.view = "ipv4"
    /\ shadow.checked = "Ok"
    /\ shadow.calls = 2
    /\ Len(ip_buf) = 22
    /\ op.name = "ipv4.set_dst_addr"
    /\ ret = "unit"
    /\ ipv4_dst_addr(ip_buf) = <<255, 255, 255, 255>>
    /\ ip_buf[21] = 0

\* C22: every IPv4 buffer accepted by check_len declares a header length of
\* at least the 20-byte minimum: check_len returning Ok implies
\* 20 <= header_len() <= total_len() <= buffer length.
C22_AcceptedHeaderLen ==
    (op.name = "ipv4.check_len" /\ ret = "Ok") =>
        /\ 20 <= ipv4_header_len(ip_buf)
        /\ ipv4_header_len(ip_buf) <= ipv4_total_len(ip_buf)
        /\ ipv4_total_len(ip_buf) <= Len(ip_buf)

====
